---- MODULE Spec2Model ----
(***************************************************************************)
(* FinBot Pro: the rule-based conversation engine of helpers.py            *)
(* (parse_number, get_response, the Hugging Face polisher) and the part of *)
(* app.py that owns the session (profile, page navigation, chat turns).    *)
(*                                                                         *)
(* Text is a sequence of one-character strings.  A Python float is an      *)
(* exact rational [n, d] in lowest terms (binary rounding is not           *)
(* modelled); None and a raised exception are records of their own.        *)
(***************************************************************************)
EXTENDS Integers, Sequences, FiniteSets, TLC

VARIABLES
    profile,           \* st.session_state.profile (dict of init_profile)
    temp_goal_amount,  \* st.session_state.temp_goal_amount: <<>> absent, <<v>> set
    HF_TOKEN,          \* helpers.HF_TOKEN: TRUE when a credential is configured
    current_page,      \* st.session_state.current_page
    user_input,        \* the utterance of the last chat turn
    core,              \* the rule-based reply of the last turn (local `core`)
    reply,             \* what get_response returned on the last turn
    outcome,           \* "none" | "returned" | "raised" for the last turn
    text,              \* input of the parser harness
    result             \* parse_number(text) in the parser harness

vars == <<profile, temp_goal_amount, HF_TOKEN, current_page, user_input, core,
          reply, outcome, text, result>>

(***************************************************************************)
(* Characters and str methods                                              *)
(***************************************************************************)
Digits == <<"0", "1", "2", "3", "4", "5", "6", "7", "8", "9">>

UpperCase == <<"A", "B", "C", "D", "E", "F", "G", "H", "I", "J", "K", "L", "M",
               "N", "O", "P", "Q", "R", "S", "T", "U", "V", "W", "X", "Y", "Z">>

LowerCase == <<"a", "b", "c", "d", "e", "f", "g", "h", "i", "j", "k", "l", "m",
               "n", "o", "p", "q", "r", "s", "t", "u", "v", "w", "x", "y", "z">>

Whitespace == {" ", "\t", "\n"}

DigitValue == [c \in {Digits[i] : i \in 1..Len(Digits)} |->
                 (CHOOSE i \in 1..Len(Digits) : Digits[i] = c) - 1]

IsDigit(c) == c \in DOMAIN DigitValue

ToLower == [c \in {UpperCase[i] : i \in 1..Len(UpperCase)} |->
              LowerCase[CHOOSE i \in 1..Len(UpperCase) : UpperCase[i] = c]]

\* str.lower() on one character
LowerChar(c) == IF c \in DOMAIN ToLower THEN ToLower[c] ELSE c

\* str.lower()
lower(s) == [i \in 1..Len(s) |-> LowerChar(s[i])]

RECURSIVE lstrip(_)
lstrip(s) == IF s # <<>> /\ Head(s) \in Whitespace THEN lstrip(Tail(s)) ELSE s

RECURSIVE rstrip(_)
rstrip(s) ==
    IF s # <<>> /\ s[Len(s)] \in Whitespace
    THEN rstrip(SubSeq(s, 1, Len(s) - 1))
    ELSE s

\* str.strip(): drop leading and trailing whitespace
strip(s) == rstrip(lstrip(s))

\* `sub in s` for str
Contains(s, sub) ==
    \E i \in 1..(Len(s) - Len(sub) + 1) :
        \A k \in 1..Len(sub) : s[i + k - 1] = sub[k]

\* str.replace(c, '')
RemoveChar(s, c) == SelectSeq(s, LAMBDA x : x # c)

(***************************************************************************)
(* Numbers                                                                 *)
(***************************************************************************)
RECURSIVE GCD(_, _)
GCD(a, b) == IF b = 0 THEN a ELSE GCD(b, a % b)

Abs(x) == IF x < 0 THEN -x ELSE x

RECURSIVE Pow10(_)
Pow10(k) == IF k = 0 THEN 1 ELSE 10 * Pow10(k - 1)

\* the float n/d, in lowest terms with d > 0
Num(n, d) ==
    LET g == GCD(Abs(n), d)
    IN  [tag |-> "float", n |-> n \div g, d |-> d \div g]

None == [tag |-> "None"]

ValueError == [tag |-> "ValueError"]

Mul(a, b) == Num(a.n * b.n, a.d * b.d)

Sub(a, b) == Num(a.n * b.d - b.n * a.d, a.d * b.d)

Div(a, b) == Num(a.n * b.d, a.d * b.n)

Geq(a, b) == a.n * b.d >= b.n * a.d

\* Python truthiness of `x` where x is None or a float: `if x:`
Truthy(x) == x.tag = "float" /\ x.n # 0

\* int(x): truncation toward zero
int(x) == IF x.n >= 0 THEN x.n \div x.d ELSE -((-x.n) \div x.d)

\* round-half-even to a multiple of 1/scale, as the numerator over scale
\* (what the format specs :,.0f and :,.2f print)
Round(x, scale) ==
    LET m == Abs(x.n) * scale
        q == m \div x.d
        r == m % x.d
        up == IF 2 * r > x.d \/ (2 * r = x.d /\ q % 2 = 1) THEN q + 1 ELSE q
    IN  IF x.n < 0 THEN -up ELSE up

RECURSIVE DigitsToInt(_)
DigitsToInt(s) ==
    IF s = <<>> THEN 0
    ELSE 10 * DigitsToInt(SubSeq(s, 1, Len(s) - 1)) + DigitValue[s[Len(s)]]

\* float(s) for s made of digits with at most one '.', as the regex yields
float(s) ==
    IF \A i \in 1..Len(s) : ~IsDigit(s[i]) THEN ValueError
    ELSE LET dots == {i \in 1..Len(s) : s[i] = "."}
             dot == IF dots = {} THEN Len(s) + 1 ELSE CHOOSE i \in dots : TRUE
             whole == SubSeq(s, 1, dot - 1)
             frac == SubSeq(s, dot + 1, Len(s))
         IN  Num(DigitsToInt(whole \o frac), Pow10(Len(frac)))

(***************************************************************************)
(* parse_number: re.search(r'[\d,]+(?:\.\d+)?', text)                      *)
(***************************************************************************)
InRun(c) == IsDigit(c) \/ c = ","

\* the first index >= i whose character can start a match; 0 when none
RECURSIVE MatchStart(_, _)
MatchStart(s, i) ==
    IF i > Len(s) THEN 0
    ELSE IF InRun(s[i]) THEN i
    ELSE MatchStart(s, i + 1)

\* greedy [\d,]+ : the last index of the run that starts at i
RECURSIVE RunEnd(_, _)
RunEnd(s, i) ==
    IF i < Len(s) /\ InRun(s[i + 1]) THEN RunEnd(s, i + 1) ELSE i

\* greedy \d+ : the last index of the digits that start at i
RECURSIVE DigitsEnd(_, _)
DigitsEnd(s, i) ==
    IF i < Len(s) /\ IsDigit(s[i + 1]) THEN DigitsEnd(s, i + 1) ELSE i

\* the optional group (?:\.\d+)? after index j: the last index of the match
FracEnd(s, j) ==
    IF j + 2 <= Len(s) /\ s[j + 1] = "." /\ IsDigit(s[j + 2])
    THEN DigitsEnd(s, j + 2)
    ELSE j

\* re.search: the leftmost match as <<first, last>>; <<0, 0>> when none
Search(s) ==
    IF MatchStart(s, 1) = 0 THEN <<0, 0>>
    ELSE <<MatchStart(s, 1), FracEnd(s, RunEnd(s, MatchStart(s, 1)))>>

parse_number(s) ==
    LET match == Search(s)
    IN  IF match # <<0, 0>>
        THEN float(RemoveChar(SubSeq(s, match[1], match[2]), ","))
        ELSE None

(***************************************************************************)
(* String literals of get_response                                         *)
(***************************************************************************)
S_back == <<"b", "a", "c", "k">>

S_budget == <<"b", "u", "d", "g", "e", "t">>

S_plan == <<"p", "l", "a", "n">>

S_emergency_fund == <<"e", "m", "e", "r", "g", "e", "n", "c", "y", " ", "f", "u", "n", "d">>

S_emergency == <<"e", "m", "e", "r", "g", "e", "n", "c", "y">>

S_goal == <<"g", "o", "a", "l">>

S_tax == <<"t", "a", "x">>

S_invest == <<"i", "n", "v", "e", "s", "t">>

S_hello == <<"h", "e", "l", "l", "o">>

S_hi == <<"h", "i">>

(***************************************************************************)
(* Core replies.  A reply is a record: its kind, whether its text carries  *)
(* the "type 'back'" hint, the values computed for it and, in `shown`, the *)
(* numbers as the f-string prints them.                                    *)
(***************************************************************************)
ResetReply == [kind |-> "reset", back_hint |-> FALSE]

AskExpenses(income) ==
    [kind |-> "ask_expenses", back_hint |-> TRUE, shown |-> <<Round(income, 1)>>]

RepromptIncome == [kind |-> "reprompt_income", back_hint |-> TRUE]

BudgetSummary(income, expenses, savings, needs, wants, saves_target) ==
    [kind |-> "budget_summary", back_hint |-> FALSE,
     savings |-> savings, needs |-> needs, wants |-> wants,
     saves_target |-> saves_target,
     verdict |-> IF Geq(savings, saves_target) THEN "great job" ELSE "below target",
     shown |-> <<Round(income, 1), Round(expenses, 1), Round(savings, 1),
                 Round(needs, 1), Round(wants, 1), Round(saves_target, 1)>>]

RepromptExpenses == [kind |-> "reprompt_expenses", back_hint |-> TRUE]

AskGoalTime(amount) ==
    [kind |-> "ask_goal_time", back_hint |-> TRUE, shown |-> <<Round(amount, 1)>>]

RepromptGoalAmount == [kind |-> "reprompt_goal_amount", back_hint |-> TRUE]

GoalSchedule(amount, months, monthly_savings) ==
    [kind |-> "goal_schedule", back_hint |-> FALSE,
     amount |-> amount, months |-> months, monthly_savings |-> monthly_savings,
     shown |-> <<Round(amount, 1), int(months), Round(monthly_savings, 100)>>]

RepromptGoalTime == [kind |-> "reprompt_goal_time", back_hint |-> TRUE]

\* mutant of EmergencyFund: the two tiers exchanged in the reply
EmergencyFund_TiersSwapped(expenses, fund_3_months, fund_6_months) ==
    [kind |-> "emergency_fund", back_hint |-> FALSE,
     fund_3_months |-> fund_6_months, fund_6_months |-> fund_3_months,
     shown |-> <<Round(expenses, 1), Round(fund_6_months, 1),
                 Round(fund_3_months, 1)>>]

EmergencyFund(expenses, fund_3_months, fund_6_months) ==
    [kind |-> "emergency_fund", back_hint |-> FALSE,
     fund_3_months |-> fund_3_months, fund_6_months |-> fund_6_months,
     shown |-> <<Round(expenses, 1), Round(fund_3_months, 1),
                 Round(fund_6_months, 1)>>]

RepromptEmergency == [kind |-> "reprompt_emergency", back_hint |-> TRUE]

StartBudget == [kind |-> "start_budget", back_hint |-> TRUE]

StartEmergency == [kind |-> "start_emergency", back_hint |-> TRUE]

StartGoal == [kind |-> "start_goal", back_hint |-> TRUE]

TaxAdvice == [kind |-> "tax_advice", back_hint |-> FALSE]

InvestAdvice == [kind |-> "invest_advice", back_hint |-> FALSE]

Greeting == [kind |-> "greeting", back_hint |-> FALSE]

Fallback == [kind |-> "fallback", back_hint |-> FALSE]

(***************************************************************************)
(* get_response, branch by branch.  Each branch yields the profile and the *)
(* scratch value it leaves, and either the core reply or the exception     *)
(* that ended the call.                                                    *)
(***************************************************************************)
Return(p, t, c) == [profile |-> p, temp |-> t, core |-> c, raised |-> FALSE]

Raise(p, t, e) ==
    [profile |-> p, temp |-> t, core |-> [kind |-> e], raised |-> TRUE]

init_profile ==
    [income |-> Num(0, 1), expenses |-> Num(0, 1), risk_tolerance |-> "medium",
     conversation_state |-> "None"]

\* mutant of IsBack: the comparison without .strip()
IsBack_NoStrip(raw_text) == raw_text = S_back

IsBack(raw_text) == strip(raw_text) = S_back

BackBranch(p, t) == Return([p EXCEPT !.conversation_state = "None"], t, ResetReply)

IncomeStep(u, p, t) ==
    LET income == parse_number(u)
    IN  IF income = ValueError THEN Raise(p, t, "ValueError")
        ELSE IF Truthy(income)
        THEN Return([p EXCEPT !.income = income,
                              !.conversation_state = "getting_expenses_for_budget"],
                    t, AskExpenses(income))
        ELSE Return(p, t, RepromptIncome)

\* mutant of ExpensesStep: the 50% and 30% shares swapped
ExpensesStep_SharesSwapped(u, p, t) ==
    LET expenses == parse_number(u)
    IN  IF expenses = ValueError THEN Raise(p, t, "ValueError")
        ELSE IF Truthy(expenses)
        THEN LET savings == Sub(p.income, expenses)
                 needs == Mul(p.income, Num(3, 10))
                 wants == Mul(p.income, Num(5, 10))
                 saves_target == Mul(p.income, Num(2, 10))
             IN  Return([p EXCEPT !.expenses = expenses,
                                  !.conversation_state = "None"],
                        t,
                        BudgetSummary(p.income, expenses, savings, needs, wants,
                                      saves_target))
        ELSE Return(p, t, RepromptExpenses)

ExpensesStep(u, p, t) ==
    LET expenses == parse_number(u)
    IN  IF expenses = ValueError THEN Raise(p, t, "ValueError")
        ELSE IF Truthy(expenses)
        THEN LET savings == Sub(p.income, expenses)
                 needs == Mul(p.income, Num(5, 10))
                 wants == Mul(p.income, Num(3, 10))
                 saves_target == Mul(p.income, Num(2, 10))
             IN  Return([p EXCEPT !.expenses = expenses,
                                  !.conversation_state = "None"],
                        t,
                        BudgetSummary(p.income, expenses, savings, needs, wants,
                                      saves_target))
        ELSE Return(p, t, RepromptExpenses)

\* mutant of GoalAmountStep: a scratch value already present is kept
GoalAmountStep_KeepStale(u, p, t) ==
    LET amount == parse_number(u)
    IN  IF amount = ValueError THEN Raise(p, t, "ValueError")
        ELSE IF Truthy(amount)
        THEN Return([p EXCEPT !.conversation_state = "getting_goal_time"],
                    IF t = <<>> THEN <<amount>> ELSE t, AskGoalTime(amount))
        ELSE Return(p, t, RepromptGoalAmount)

\* mutant of GoalAmountStep: the amount is not written to the session
GoalAmountStep_NoStore(u, p, t) ==
    LET amount == parse_number(u)
    IN  IF amount = ValueError THEN Raise(p, t, "ValueError")
        ELSE IF Truthy(amount)
        THEN Return([p EXCEPT !.conversation_state = "getting_goal_time"],
                    t, AskGoalTime(amount))
        ELSE Return(p, t, RepromptGoalAmount)

GoalAmountStep(u, p, t) ==
    LET amount == parse_number(u)
    IN  IF amount = ValueError THEN Raise(p, t, "ValueError")
        ELSE IF Truthy(amount)
        THEN Return([p EXCEPT !.conversation_state = "getting_goal_time"],
                    <<amount>>, AskGoalTime(amount))
        ELSE Return(p, t, RepromptGoalAmount)

\* mutant of GoalTimeStep: the schedule is returned but the flow stays active
GoalTimeStep_StaysActive(u, p, t) ==
    LET months == parse_number(u)
    IN  IF months = ValueError THEN Raise(p, t, "ValueError")
        ELSE IF Truthy(months) /\ months.n > 0
        THEN IF t = <<>> THEN Raise(p, t, "AttributeError")
             ELSE LET amount == t[1]
                      monthly_savings == Div(amount, months)
                  IN  Return(p, t, GoalSchedule(amount, months, monthly_savings))
        ELSE Return(p, t, RepromptGoalTime)

GoalTimeStep(u, p, t) ==
    LET months == parse_number(u)
    IN  IF months = ValueError THEN Raise(p, t, "ValueError")
        ELSE IF Truthy(months) /\ months.n > 0
        THEN IF t = <<>> THEN Raise(p, t, "AttributeError")
             ELSE LET amount == t[1]
                      monthly_savings == Div(amount, months)
                  IN  Return([p EXCEPT !.conversation_state = "None"], <<>>,
                             GoalSchedule(amount, months, monthly_savings))
        ELSE Return(p, t, RepromptGoalTime)

\* mutant of EmergencyStep: the answer is also written to the profile
EmergencyStep_StoresExpenses(u, p, t) ==
    LET expenses == parse_number(u)
    IN  IF expenses = ValueError THEN Raise(p, t, "ValueError")
        ELSE IF Truthy(expenses)
        THEN LET fund_3_months == Mul(expenses, Num(3, 1))
                 fund_6_months == Mul(expenses, Num(6, 1))
             IN  Return([p EXCEPT !.conversation_state = "None",
                                  !.expenses = expenses], t,
                        EmergencyFund(expenses, fund_3_months, fund_6_months))
        ELSE Return(p, t, RepromptEmergency)

EmergencyStep(u, p, t) ==
    LET expenses == parse_number(u)
    IN  IF expenses = ValueError THEN Raise(p, t, "ValueError")
        ELSE IF Truthy(expenses)
        THEN LET fund_3_months == Mul(expenses, Num(3, 1))
                 fund_6_months == Mul(expenses, Num(6, 1))
             IN  Return([p EXCEPT !.conversation_state = "None"], t,
                        EmergencyFund(expenses, fund_3_months, fund_6_months))
        ELSE Return(p, t, RepromptEmergency)

\* mutant of KeywordIntents: the greeting test moved to the front of the chain
KeywordIntents_GreetingFirst(raw_text, p, t) ==
    IF Contains(raw_text, S_hello) \/ Contains(raw_text, S_hi)
    THEN Return(p, t, Greeting)
    ELSE IF Contains(raw_text, S_budget) \/ Contains(raw_text, S_plan)
    THEN Return([p EXCEPT !.conversation_state = "getting_income_for_budget"],
                t, StartBudget)
    ELSE IF Contains(raw_text, S_emergency_fund) \/ Contains(raw_text, S_emergency)
    THEN Return([p EXCEPT !.conversation_state = "getting_emergency_expenses"],
                t, StartEmergency)
    ELSE IF Contains(raw_text, S_goal)
    THEN Return([p EXCEPT !.conversation_state = "getting_goal_amount"],
                t, StartGoal)
    ELSE IF Contains(raw_text, S_tax) THEN Return(p, t, TaxAdvice)
    ELSE IF Contains(raw_text, S_invest) THEN Return(p, t, InvestAdvice)
    ELSE Return(p, t, Fallback)

KeywordIntents(raw_text, p, t) ==
    IF Contains(raw_text, S_budget) \/ Contains(raw_text, S_plan)
    THEN Return([p EXCEPT !.conversation_state = "getting_income_for_budget"],
                t, StartBudget)
    ELSE IF Contains(raw_text, S_emergency_fund) \/ Contains(raw_text, S_emergency)
    THEN Return([p EXCEPT !.conversation_state = "getting_emergency_expenses"],
                t, StartEmergency)
    ELSE IF Contains(raw_text, S_goal)
    THEN Return([p EXCEPT !.conversation_state = "getting_goal_amount"],
                t, StartGoal)
    ELSE IF Contains(raw_text, S_tax) THEN Return(p, t, TaxAdvice)
    ELSE IF Contains(raw_text, S_invest) THEN Return(p, t, InvestAdvice)
    ELSE IF Contains(raw_text, S_hello) \/ Contains(raw_text, S_hi)
    THEN Return(p, t, Greeting)
    ELSE Return(p, t, Fallback)

\* the rule-based part of get_response: everything but the polish call
get_response(u, p, t) ==
    LET raw_text == lower(u)
        state == p.conversation_state
    IN  IF IsBack(raw_text) THEN BackBranch(p, t)
        ELSE IF state = "getting_income_for_budget" THEN IncomeStep(u, p, t)
        ELSE IF state = "getting_expenses_for_budget" THEN ExpensesStep(u, p, t)
        ELSE IF state = "getting_goal_amount" THEN GoalAmountStep(u, p, t)
        ELSE IF state = "getting_goal_time" THEN GoalTimeStep(u, p, t)
        ELSE IF state = "getting_emergency_expenses" THEN EmergencyStep(u, p, t)
        ELSE KeywordIntents(raw_text, p, t)

(***************************************************************************)
(* The polisher: call_hf_polish and maybe_polish_and_return.  The remote   *)
(* endpoint's answer is an input of the turn.                              *)
(***************************************************************************)
\* what requests.post and resp.json() can produce
Responses ==
    { [status |-> "exception"],
      [status |-> "non200"],
      [status |-> "200", shape |-> "list", generated_text |-> <<" ", "o", "k", "\n">>],
      [status |-> "200", shape |-> "dict", generated_text |-> <<" ">>],
      [status |-> "200", shape |-> "str", generated_text |-> <<>>],
      [status |-> "200", shape |-> "other"] }

\* the polished text, or None
call_hf_polish(core_reply, token, resp) ==
    IF ~token THEN None
    ELSE IF resp.status # "200" THEN None
    ELSE IF resp.shape = "other" THEN None
    ELSE IF resp.generated_text # <<>>
    THEN [tag |-> "str", text |-> strip(resp.generated_text)]
    ELSE None

\* mutant of maybe_polish_and_return: `is not None` instead of truthiness
maybe_polish_and_return_NotNone(core_reply, token, resp) ==
    LET polished == call_hf_polish(core_reply, token, resp)
    IN  IF polished.tag = "str"
        THEN [kind |-> "polished", text |-> polished.text]
        ELSE core_reply

maybe_polish_and_return(core_reply, token, resp) ==
    LET polished == call_hf_polish(core_reply, token, resp)
    IN  IF polished.tag = "str" /\ polished.text # <<>>
        THEN [kind |-> "polished", text |-> polished.text]
        ELSE core_reply

(***************************************************************************)
(* The session (app.py)                                                    *)
(***************************************************************************)
Pages == {"home", "chatbot", "history"}

\* Utterances typed into st.chat_input or sent by a feature button:
\*   'back'
\*   ' Back '
\*   'Create a budget'
\*   'Calculate my emergency fund'
\*   'Set a savings goal'
\*   'tax'
\*   'thanks'
\*   'no, thanks'
\*   '0'
\*   '-5'
\*   '12'
\*   '45,000'
\*   '60000'
Utterances ==
    { <<"b", "a", "c", "k">>,
      <<" ", "B", "a", "c", "k", " ">>,
      <<"C", "r", "e", "a", "t", "e", " ", "a", " ", "b", "u", "d", "g", "e", "t">>,
      <<"C", "a", "l", "c", "u", "l", "a", "t", "e", " ", "m", "y", " ", "e", "m", "e", "r", "g", "e", "n", "c", "y", " ", "f", "u", "n", "d">>,
      <<"S", "e", "t", " ", "a", " ", "s", "a", "v", "i", "n", "g", "s", " ", "g", "o", "a", "l">>,
      <<"t", "a", "x">>,
      <<"t", "h", "a", "n", "k", "s">>,
      <<"n", "o", ",", " ", "t", "h", "a", "n", "k", "s">>,
      <<"0">>,
      <<"-", "5">>,
      <<"1", "2">>,
      <<"4", "5", ",", "0", "0", "0">>,
      <<"6", "0", "0", "0", "0">> }

NoTurn == [kind |-> "none"]

Init ==
    /\ profile = init_profile
    /\ temp_goal_amount = <<>>
    /\ HF_TOKEN \in BOOLEAN
    /\ current_page = "home"
    /\ user_input = <<>>
    /\ core = NoTurn
    /\ reply = NoTurn
    /\ outcome = "none"
    /\ text = <<>>
    /\ result = NoTurn

\* save_current_chat: archive the transcript and start a fresh conversation
save_current_chat ==
    /\ profile' = init_profile
    /\ user_input' = <<>>
    /\ core' = NoTurn
    /\ reply' = NoTurn
    /\ outcome' = "none"

navigate_to(page) ==
    /\ IF current_page = "chatbot" /\ page # "chatbot"
       THEN save_current_chat
       ELSE UNCHANGED <<profile, user_input, core, reply, outcome>>
    /\ current_page' = page
    /\ UNCHANGED <<temp_goal_amount, HF_TOKEN, text, result>>

\* one call get_response(u, profile) whose polish request is answered by one
\* of the responses R
Call(u, R) ==
    LET r == get_response(u, profile, temp_goal_amount)
    IN  /\ profile' = r.profile
        /\ temp_goal_amount' = r.temp
        /\ user_input' = u
        /\ core' = r.core
        /\ IF r.raised
           THEN reply' = NoTurn /\ outcome' = "raised"
           ELSE /\ \E resp \in R :
                     reply' = maybe_polish_and_return(r.core, HF_TOKEN, resp)
                /\ outcome' = "returned"

\* one chat turn on the chatbot page: get_response(user_input, profile)
Turn(u) ==
    /\ current_page = "chatbot"
    /\ u # <<>>
    /\ Call(u, Responses)
    /\ UNCHANGED <<HF_TOKEN, current_page, text, result>>

Next ==
    \/ \E page \in Pages : navigate_to(page)
    \/ \E u \in Utterances : Turn(u)

Spec == Init /\ [][Next]_vars

(***************************************************************************)
(* Parser harness: parse_number applied to every text of at most MaxLen    *)
(* characters over ParseAlphabet.                                          *)
(***************************************************************************)
MaxLen == 5

ParseAlphabet == {"0", "7", ",", ".", "-", "$"}

RECURSIVE TextsOfLen(_)
TextsOfLen(k) ==
    IF k = 0 THEN {<<>>}
    ELSE {Append(t, c) : t \in TextsOfLen(k - 1), c \in ParseAlphabet}

Texts == UNION {TextsOfLen(k) : k \in 0..MaxLen}

InitParse ==
    /\ profile = init_profile
    /\ temp_goal_amount = <<>>
    /\ HF_TOKEN = FALSE
    /\ current_page = "home"
    /\ user_input = <<>>
    /\ core = NoTurn
    /\ reply = NoTurn
    /\ outcome = "none"
    /\ text \in Texts
    /\ result = NoTurn

ParseStep ==
    /\ result = NoTurn
    /\ result' = parse_number(text)
    /\ UNCHANGED <<profile, temp_goal_amount, HF_TOKEN, current_page, user_input,
                   core, reply, outcome, text>>

NextParse == ParseStep

SpecParse == InitParse /\ [][NextParse]_vars

(***************************************************************************)
(* Intent harness: one chat turn on a fresh profile, for every utterance   *)
(* of one to MaxWords words of Words joined by single spaces.              *)
(***************************************************************************)
MaxWords == 2

Words ==
    { <<"B", "u", "d", "g", "e", "t">>,
      <<"p", "l", "a", "n">>,
      <<"e", "m", "e", "r", "g", "e", "n", "c", "y">>,
      <<"g", "o", "a", "l">>,
      <<"T", "A", "X">>,
      <<"i", "n", "v", "e", "s", "t">>,
      <<"h", "e", "l", "l", "o">>,
      <<"h", "i">>,
      <<"o", "k">> }

RECURSIVE Phrases(_)
Phrases(k) ==
    IF k = 1 THEN Words
    ELSE {ph \o <<" ">> \o w : ph \in Phrases(k - 1), w \in Words}

InitIntent ==
    /\ profile = init_profile
    /\ temp_goal_amount = <<>>
    /\ HF_TOKEN \in BOOLEAN
    /\ current_page = "chatbot"
    /\ user_input = <<>>
    /\ core = NoTurn
    /\ reply = NoTurn
    /\ outcome = "none"
    /\ text \in UNION {Phrases(k) : k \in 1..MaxWords}
    /\ result = NoTurn

NextIntent == outcome = "none" /\ Turn(text)

SpecIntent == InitIntent /\ [][NextIntent]_vars

(***************************************************************************)
(* Properties                                                              *)
(***************************************************************************)
FlowStates ==
    {"getting_income_for_budget", "getting_expenses_for_budget",
     "getting_goal_amount", "getting_goal_time", "getting_emergency_expenses"}

\* In a step of Spec that changes the state, outcome' # "none" exactly when the
\* step is a chat turn, and user_input' is then the utterance of that turn:
\* leaving the chatbot page resets outcome, the other pages never set it.
IsTurn == outcome' # "none"

\* the utterance is "back" once lower-cased and trimmed
SaysBack(u) == strip(lower(u)) = <<"b", "a", "c", "k">>

\* a = n / d, for a float a and integers n, d with d # 0
RatEq(a, n, d) == a.tag = "float" /\ a.n * d = n * a.d

\* C1 (universal cancel): a turn whose utterance is "back" after lower-casing
\* and trimming returns the reset acknowledgement and leaves the profile as it
\* was except that conversation_state is None, whatever state was active; no
\* per-state handler has touched income, expenses or the pending goal amount.
C1_UniversalCancel ==
    [][(IsTurn /\ SaysBack(user_input')) =>
          /\ outcome' = "returned"
          /\ core'.kind = "reset"
          /\ reply' = core' \/ reply'.kind = "polished"
          /\ profile' = [profile EXCEPT !.conversation_state = "None"]
          /\ temp_goal_amount' = temp_goal_amount]_vars

C1_Witness ==
    /\ outcome = "returned"
    /\ user_input = <<" ", "B", "a", "c", "k", " ">>
    /\ profile.conversation_state = "None"
    /\ core.kind = "reset"
    /\ reply = core
    /\ temp_goal_amount # <<>>
    /\ profile.income.n # 0

\* C2 (totality): every chat turn returns a reply; none ends in an exception.
C2_Totality == outcome # "none" => (outcome = "returned" /\ reply # NoTurn)

\* C3 (lifetime of the pending goal amount): after any turn the pending goal
\* amount is present only while conversation_state is getting_goal_time.
C3_PendingGoalLifetime ==
    (outcome # "none" /\ temp_goal_amount # <<>>) =>
        profile.conversation_state = "getting_goal_time"

Successor ==
    [s \in FlowStates |->
        IF s = "getting_income_for_budget" THEN "getting_expenses_for_budget"
        ELSE IF s = "getting_goal_amount" THEN "getting_goal_time"
        ELSE "None"]

RepromptKind ==
    [s \in FlowStates |->
        IF s = "getting_income_for_budget" THEN "reprompt_income"
        ELSE IF s = "getting_expenses_for_budget" THEN "reprompt_expenses"
        ELSE IF s = "getting_goal_amount" THEN "reprompt_goal_amount"
        ELSE IF s = "getting_goal_time" THEN "reprompt_goal_time"
        ELSE "reprompt_emergency"]

IdleKinds ==
    {"start_budget", "start_emergency", "start_goal", "tax_advice",
     "invest_advice", "greeting", "fallback"}

HasDigit(u) ==
    \E i \in 1..Len(u) : u[i] \in {"0", "1", "2", "3", "4", "5", "6", "7", "8", "9"}

\* C4 (active-flow exclusivity): a turn in flow state S with an utterance
\* other than "back" ends in S, S's successor or idle, never with an idle
\* (keyword) reply, and with no number in the utterance the reply is S's
\* reprompt.
C4_ActiveFlowExclusivity ==
    [][(IsTurn /\ profile.conversation_state \in FlowStates
              /\ ~SaysBack(user_input')) =>
          LET S == profile.conversation_state
          IN  /\ profile'.conversation_state \in {S, Successor[S], "None"}
              /\ core'.kind \notin IdleKinds
              /\ ~HasDigit(user_input') =>
                    (outcome' = "returned" /\ core'.kind = RepromptKind[S])]_vars

KeywordGroups ==
    << [keywords |-> {<<"b", "u", "d", "g", "e", "t">>, <<"p", "l", "a", "n">>},
        kind |-> "start_budget", state |-> "getting_income_for_budget"],
       [keywords |-> {<<"e", "m", "e", "r", "g", "e", "n", "c", "y">>},
        kind |-> "start_emergency", state |-> "getting_emergency_expenses"],
       [keywords |-> {<<"g", "o", "a", "l">>},
        kind |-> "start_goal", state |-> "getting_goal_amount"],
       [keywords |-> {<<"t", "a", "x">>}, kind |-> "tax_advice", state |-> "None"],
       [keywords |-> {<<"i", "n", "v", "e", "s", "t">>},
        kind |-> "invest_advice", state |-> "None"],
       [keywords |-> {<<"h", "e", "l", "l", "o">>, <<"h", "i">>},
        kind |-> "greeting", state |-> "None"] >>

GroupHits(raw) ==
    {i \in 1..Len(KeywordGroups) :
        \E k \in KeywordGroups[i].keywords : Contains(raw, k)}

\* C5 (idle keyword priority): on an idle profile the turn is decided by the
\* first group, in the order budget/plan, emergency, goal, tax, invest,
\* hello/hi, one of whose keywords is a substring of the lower-cased
\* utterance; with no keyword at all the reply is the fallback.
C5_IdleKeywordPriority ==
    outcome # "none" =>
        LET hits == GroupHits(lower(user_input))
        IN  /\ outcome = "returned"
            /\ profile.income = init_profile.income
            /\ profile.expenses = init_profile.expenses
            /\ IF hits = {}
               THEN core.kind = "fallback" /\ profile.conversation_state = "None"
               ELSE LET first == CHOOSE i \in hits : \A j \in hits : i <= j
                    IN  /\ core.kind = KeywordGroups[first].kind
                        /\ profile.conversation_state = KeywordGroups[first].state

C5_Witness ==
    /\ outcome = "returned"
    /\ user_input = <<"h", "i", " ", "B", "u", "d", "g", "e", "t">>
    /\ profile.conversation_state = "getting_income_for_budget"
    /\ core.kind = "start_budget"

\* a comma-grouped unsigned integer: digits only, or a first group of one to
\* three digits followed by groups of exactly three, each after a comma
WellGrouped(w) ==
    LET commas == {i \in 1..Len(w) : w[i] = ","}
    IN  /\ w # <<>>
        /\ \A i \in 1..Len(w) : w[i] = "," \/ HasDigit(<<w[i]>>)
        /\ \A i \in commas :
              /\ i > 1 /\ i + 3 <= Len(w)
              /\ \A k \in 1..3 : w[i + k] # ","
              /\ i + 4 <= Len(w) => w[i + 4] = ","
        /\ commas # {} => \E i \in commas : i <= 4 /\ \A k \in 1..(i - 1) : w[k] # ","

AllDigits(w) == w # <<>> /\ \A i \in 1..Len(w) : HasDigit(<<w[i]>>)

\* a well-formed comma-grouped unsigned decimal: a grouped integer part and an
\* optional fraction of one or more digits
WellFormed(w) ==
    \/ WellGrouped(w)
    \/ \E i \in 2..(Len(w) - 1) :
          /\ w[i] = "."
          /\ WellGrouped(SubSeq(w, 1, i - 1))
          /\ AllDigits(SubSeq(w, i + 1, Len(w)))

DigitOf ==
    [c \in {"0", "1", "2", "3", "4", "5", "6", "7", "8", "9"} |->
        CASE c = "0" -> 0 [] c = "1" -> 1 [] c = "2" -> 2 [] c = "3" -> 3
          [] c = "4" -> 4 [] c = "5" -> 5 [] c = "6" -> 6 [] c = "7" -> 7
          [] c = "8" -> 8 [] c = "9" -> 9]

\* the digits of w read as one integer, commas and the point skipped
RECURSIVE Mantissa(_, _)
Mantissa(w, acc) ==
    IF w = <<>> THEN acc
    ELSE IF Head(w) \in DOMAIN DigitOf
    THEN Mantissa(Tail(w), 10 * acc + DigitOf[Head(w)])
    ELSE Mantissa(Tail(w), acc)

\* the number of digits after the point
FractionDigits(w) ==
    IF \E i \in 1..Len(w) : w[i] = "."
    THEN Len(w) - (CHOOSE i \in 1..Len(w) : w[i] = ".")
    ELSE 0

\* w, starting at index i of txt and ending at index j, is the first numeric
\* run of txt: no digit before it, and the text after it does not continue it
FirstNumericRun(txt, i, j) ==
    /\ ~HasDigit(SubSeq(txt, 1, i - 1))
    /\ WellFormed(SubSeq(txt, i, j))
    /\ i > 1 => txt[i - 1] # ","
    /\ j < Len(txt) =>
          /\ txt[j + 1] # "," /\ ~HasDigit(<<txt[j + 1]>>)
          /\ ~(txt[j + 1] = "." /\ j + 2 <= Len(txt) /\ HasDigit(<<txt[j + 2]>>)
               /\ \A k \in i..j : txt[k] # ".")

\* C6 (number parser): on a text with no digit the parser returns None, and on
\* a text whose first numeric run is a well-formed comma-grouped unsigned
\* decimal it returns that number's value.
C6_NumberParser ==
    result # NoTurn =>
        /\ ~HasDigit(text) => result = None
        /\ \A i \in 1..Len(text) : \A j \in i..Len(text) :
              FirstNumericRun(text, i, j) =>
                  LET w == SubSeq(text, i, j)
                  IN  RatEq(result, Mantissa(w, 0), Pow10(FractionDigits(w)))

\* C7 (income step): in getting_income_for_budget every number the parser
\* extracts, 0 included, is stored as income and moves the flow on to
\* getting_expenses_for_budget; the reprompt is given only when the parser
\* finds no number.
C7_IncomeStep ==
    [][(IsTurn /\ profile.conversation_state = "getting_income_for_budget"
              /\ ~SaysBack(user_input')) =>
          LET n == parse_number(user_input')
          IN  /\ n.tag = "float" =>
                    /\ profile'.income = n
                    /\ profile'.conversation_state = "getting_expenses_for_budget"
                    /\ core'.kind = "ask_expenses"
              /\ core'.kind = "reprompt_income" =>
                    /\ n = None
                    /\ profile' = profile]_vars

\* the parser extracts a number from u and the handlers accept it
ValidNumber(u) == parse_number(u).tag = "float" /\ parse_number(u).n > 0

\* C8 (budget completion): getting_expenses_for_budget is entered only by the
\* income step, which stores the number just accepted, and nothing changes
\* income while the state lasts; a valid number e there is stored as
\* expenses, ends the flow, and the summary is needs = income/2,
\* wants = 3*income/10, target = income/5, savings = income - e, with the
\* verdict "great job" exactly when savings >= target (income 60000 with
\* expenses 45000 is on track, income 50000 with expenses 45000 is below).
C8_BudgetCompletion ==
    [][(IsTurn /\ ~SaysBack(user_input')) =>
          LET S == profile.conversation_state
              n == parse_number(user_input')
              I == profile.income
          IN  /\ profile'.conversation_state = "getting_expenses_for_budget" =>
                    \/ S = "getting_income_for_budget" /\ profile'.income = n
                    \/ S = "getting_expenses_for_budget" /\ profile'.income = I
              /\ (S = "getting_expenses_for_budget" /\ ValidNumber(user_input')) =>
                    /\ outcome' = "returned"
                    /\ profile'.expenses = n
                    /\ profile'.income = I
                    /\ profile'.conversation_state = "None"
                    /\ core'.kind = "budget_summary"
                    /\ RatEq(core'.needs, I.n, 2 * I.d)
                    /\ RatEq(core'.wants, 3 * I.n, 10 * I.d)
                    /\ RatEq(core'.saves_target, I.n, 5 * I.d)
                    /\ RatEq(core'.savings, I.n * n.d - n.n * I.d, I.d * n.d)
                    /\ core'.verdict = "great job" <=>
                          5 * (I.n * n.d - n.n * I.d) >= I.n * n.d
                    /\ core'.verdict \in {"great job", "below target"}
                    /\ (I.n = 60000 /\ I.d = 1 /\ n.n = 45000 /\ n.d = 1) =>
                          /\ core'.verdict = "great job"
                          /\ core'.shown = <<60000, 45000, 15000, 30000, 18000, 12000>>
                    /\ (I.n = 45000 /\ I.d = 1 /\ n.n = 60000 /\ n.d = 1) =>
                          core'.verdict = "below target"
                    /\ LET r == ExpensesStep(user_input',
                                             [profile EXCEPT !.income = Num(50000, 1)],
                                             temp_goal_amount)
                       IN  (n.n = 45000 /\ n.d = 1) =>
                              /\ r.core.verdict = "below target"
                              /\ r.core.shown =
                                    <<50000, 45000, 5000, 25000, 15000, 10000>>]_vars

C8_Witness ==
    /\ outcome = "returned"
    /\ core.kind = "budget_summary"
    /\ core.verdict = "great job"
    /\ core.shown = <<60000, 45000, 15000, 30000, 18000, 12000>>
    /\ profile.conversation_state = "None"
    /\ profile.expenses = Num(45000, 1)

\* the utterance, trimmed, is a month count that is zero or negative: digits
\* that are all 0, or a minus sign followed by digits
NonPositiveCount(u) ==
    LET w == strip(u)
    IN  \/ AllDigits(w) /\ \A i \in 1..Len(w) : w[i] = "0"
        \/ Len(w) >= 2 /\ w[1] = "-" /\ AllDigits(Tail(w))

\* C9 (goal-time validation): in getting_goal_time a month count of 0 or a
\* negative one gets the months reprompt and leaves conversation_state and
\* the pending goal amount as they were.
C9_GoalTimeValidation ==
    [][(IsTurn /\ profile.conversation_state = "getting_goal_time"
              /\ NonPositiveCount(user_input')) =>
          /\ core'.kind = "reprompt_goal_time"
          /\ profile'.conversation_state = "getting_goal_time"
          /\ temp_goal_amount' = temp_goal_amount]_vars

\* C10 (goal completion): getting_goal_time is entered only by the goal-amount
\* step, which stores the amount just accepted, and the stored amount does
\* not change while the state lasts; a valid month count m there yields
\* monthly savings amount / m for that stored amount, ends the flow and
\* clears the pending goal amount.
C10_GoalCompletion ==
    [][(IsTurn /\ ~SaysBack(user_input')) =>
          LET S == profile.conversation_state
              m == parse_number(user_input')
          IN  /\ profile'.conversation_state = "getting_goal_time" =>
                    \/ S = "getting_goal_amount" /\ temp_goal_amount' = <<m>>
                    \/ /\ S = "getting_goal_time"
                       /\ temp_goal_amount' = temp_goal_amount
                       /\ temp_goal_amount # <<>>
              /\ (S = "getting_goal_time" /\ ValidNumber(user_input')) =>
                    /\ outcome' = "returned"
                    /\ core'.kind = "goal_schedule"
                    /\ core'.amount = temp_goal_amount[1]
                    /\ RatEq(core'.monthly_savings,
                             temp_goal_amount[1].n * m.d,
                             temp_goal_amount[1].d * m.n)
                    /\ profile'.conversation_state = "None"
                    /\ temp_goal_amount' = <<>>]_vars

C10_Witness ==
    /\ outcome = "returned"
    /\ core.kind = "goal_schedule"
    /\ core.shown = <<60000, 12, 500000>>
    /\ profile.conversation_state = "None"
    /\ temp_goal_amount = <<>>

\* C11 (emergency flow): in getting_emergency_expenses a valid number x ends
\* the flow and the reply gives 3*x and 6*x (20,000 gives 60000 and 120000);
\* income and expenses of the profile are not changed.
C11_EmergencyFlow ==
    [][(IsTurn /\ profile.conversation_state = "getting_emergency_expenses"
              /\ ~SaysBack(user_input') /\ ValidNumber(user_input')) =>
          LET x == parse_number(user_input')
          IN  /\ outcome' = "returned"
              /\ core'.kind = "emergency_fund"
              /\ RatEq(core'.fund_3_months, 3 * x.n, x.d)
              /\ RatEq(core'.fund_6_months, 6 * x.n, x.d)
              /\ core'.shown = <<Round(x, 1), 3 * Round(x, 1), 6 * Round(x, 1)>>
              /\ profile' = [profile EXCEPT !.conversation_state = "None"]
              /\ EmergencyStep(<<"2", "0", ",", "0", "0", "0">>, profile,
                               temp_goal_amount).core.shown
                    = <<20000, 60000, 120000>>]_vars

C11_Witness ==
    /\ outcome = "returned"
    /\ core.kind = "emergency_fund"
    /\ core.shown = <<45000, 135000, 270000>>
    /\ profile.conversation_state = "None"
    /\ profile.income = Num(60000, 1)
    /\ profile.expenses = Num(12, 1)

\* C12 (reprompt loop): in a flow state an utterance other than "back" with no
\* parseable valid number gets that state's reprompt and leaves the profile
\* and the pending goal amount unchanged, however often it is repeated.
C12_RepromptLoop ==
    [][(IsTurn /\ profile.conversation_state \in FlowStates
              /\ ~SaysBack(user_input') /\ ~ValidNumber(user_input')) =>
          /\ outcome' = "returned"
          /\ core'.kind = RepromptKind[profile.conversation_state]
          /\ profile' = profile
          /\ temp_goal_amount' = temp_goal_amount]_vars

CompletionKinds == {"budget_summary", "goal_schedule", "emergency_fund"}

\* C13 (back reminder): every reprompt and every reply that completes a flow
\* carries the reminder that typing 'back' returns to the main menu.
C13_BackReminder ==
    (outcome = "returned"
       /\ core.kind \in {RepromptKind[s] : s \in FlowStates} \cup CompletionKinds)
    => core.back_hint

(***************************************************************************)
(* A single call of get_response on a profile supplied by the host        *)
(***************************************************************************)
\* the conversation_state values get_response distinguishes
ConversationStates == FlowStates \cup {"None"}

\* profiles a host can pass: any state tag, fields fresh or already filled
HostProfiles ==
    { [income |-> i, expenses |-> e, risk_tolerance |-> "medium",
       conversation_state |-> s] :
        i \in {Num(0, 1), Num(60000, 1)}, e \in {Num(0, 1), Num(45000, 1)},
        s \in ConversationStates }

\* st.session_state.temp_goal_amount: absent or set by an earlier turn
HostScratch == { <<>>, <<Num(60000, 1)>> }

InitCall ==
    /\ profile \in HostProfiles
    /\ temp_goal_amount \in HostScratch
    /\ HF_TOKEN \in BOOLEAN
    /\ current_page = "chatbot"
    /\ user_input = <<>>
    /\ core = NoTurn
    /\ reply = NoTurn
    /\ outcome = "none"
    /\ text = <<>>
    /\ result = NoTurn

\* the call, with the answer of the polish endpoint kept in result
CallStep ==
    /\ outcome = "none"
    /\ \E u \in Utterances, resp \in Responses :
          /\ Call(u, {resp})
          /\ result' = resp
    /\ UNCHANGED <<HF_TOKEN, current_page, text>>

NextCall == CallStep

SpecCall == InitCall /\ [][NextCall]_vars

\* the polish call is skipped or fails: no credential, a network error or
\* timeout, a non-200 status, an unrecognised payload or an empty one
PolishFails(token, resp) ==
    \/ ~token
    \/ resp.status # "200"
    \/ resp.shape = "other"
    \/ strip(resp.generated_text) = <<>>

ExceptionKinds == {"ValueError", "AttributeError"}

\* C14 (polisher fallback): on a call whose core reply the state machine has
\* computed, if the polish call is skipped or fails, the call returns (no
\* exception from the polish step reaches the caller), the reply is the core
\* reply exactly, and the profile and pending amount written are those the
\* state machine writes whatever the endpoint answers.
C14_PolisherFallback ==
    [][(IsTurn /\ core'.kind \notin ExceptionKinds) =>
          /\ outcome' = "returned"
          /\ PolishFails(HF_TOKEN, result') => reply' = core'
          /\ \A resp \in Responses :
                LET r == get_response(user_input', profile, temp_goal_amount)
                IN  /\ profile' = r.profile
                    /\ temp_goal_amount' = r.temp
                    /\ ~PolishFails(HF_TOKEN, resp)
                         => maybe_polish_and_return(r.core, HF_TOKEN, resp).kind
                               = "polished"]_vars

C14_Witness ==
    /\ outcome = "returned"
    /\ HF_TOKEN
    /\ result.status = "200" /\ result.shape = "dict"
    /\ core.kind = "goal_schedule"
    /\ reply = core
    /\ profile.conversation_state = "None"

\* C15 (contract-violation guard): a call in state getting_goal_time with no
\* pending goal amount stored returns the reprompt for months and does not
\* raise, for every utterance other than "back", a valid month count included.
C15_ContractViolationGuard ==
    [][(IsTurn /\ profile.conversation_state = "getting_goal_time"
              /\ temp_goal_amount = <<>> /\ ~SaysBack(user_input')) =>
          /\ outcome' = "returned"
          /\ core'.kind = "reprompt_goal_time"]_vars

(***************************************************************************)
(* A session whose calls are logged: utterance, profile before, core      *)
(* reply and profile after                                                 *)
(***************************************************************************)
MaxCalls == 6

ProbeUtterances ==
    { <<"S", "e", "t", " ", "a", " ", "s", "a", "v", "i", "n", "g", "s", " ", "g", "o", "a", "l">>,
      <<"1", "2">>,
      <<"6", "0", "0", "0", "0">> }

InitHistory ==
    /\ profile = init_profile
    /\ temp_goal_amount = <<>>
    /\ HF_TOKEN \in BOOLEAN
    /\ current_page = "chatbot"
    /\ user_input = <<>>
    /\ core = NoTurn
    /\ reply = NoTurn
    /\ outcome = "none"
    /\ text = <<>>
    /\ result = <<>>

LoggedCall ==
    /\ Len(result) < MaxCalls
    /\ \E u \in ProbeUtterances :
          /\ Call(u, Responses)
          /\ result' = Append(result, [user_input |-> u, profile |-> profile,
                                       core |-> core', after |-> profile'])
    /\ UNCHANGED <<HF_TOKEN, current_page, text>>

NextHistory == LoggedCall

SpecHistory == InitHistory /\ [][NextHistory]_vars

\* C16 (determinism): two calls of one session given equal utterances and
\* equal profiles (income, expenses, risk_tolerance, conversation_state)
\* produce the same core reply and the same resulting profile.
C16_Determinism ==
    \A i, j \in DOMAIN result :
        (result[i].user_input = result[j].user_input
           /\ result[i].profile = result[j].profile)
        => (result[i].core = result[j].core /\ result[i].after = result[j].after)

\* C17 (conversation reset): after first initialisation and after every
\* save_current_chat the conversation has the fresh profile (income 0,
\* expenses 0, idle) and no pending goal amount; the conversation is only
\* written on the chatbot page, so this is the state off that page.
C17_ConversationReset ==
    current_page # "chatbot" =>
        (profile = init_profile /\ temp_goal_amount = <<>>)

\* C18 (field frame): a turn never changes risk_tolerance; it changes income
\* only on a valid answer, other than "back", in getting_income_for_budget
\* (to the number parsed) and expenses only on one in
\* getting_expenses_for_budget.
C18_FieldFrame ==
    [][IsTurn =>
          LET answered(s) == /\ profile.conversation_state = s
                             /\ ~SaysBack(user_input')
                             /\ ValidNumber(user_input')
          IN  /\ profile'.risk_tolerance = profile.risk_tolerance
              /\ profile'.income # profile.income
                   => /\ answered("getting_income_for_budget")
                      /\ profile'.income = parse_number(user_input')
              /\ profile'.expenses # profile.expenses
                   => /\ answered("getting_expenses_for_budget")
                      /\ profile'.expenses = parse_number(user_input')]_vars

C18_Witness ==
    /\ outcome = "returned"
    /\ core.kind = "emergency_fund"
    /\ profile.income = Num(60000, 1)
    /\ profile.expenses = Num(45000, 1)
    /\ profile.risk_tolerance = "medium"

\* the numbers written in a text: each maximal run of digits, ',' and '.'
\* holding a digit, read with the separators dropped
RECURSIVE NumbersIn(_, _, _)
NumbersIn(t, i, run) ==
    LET close == IF \E k \in 1..Len(run) : IsDigit(run[k])
                 THEN <<DigitsToInt(SelectSeq(run, IsDigit))>> ELSE <<>>
    IN  IF i > Len(t) THEN close
        ELSE IF IsDigit(t[i]) \/ t[i] \in {",", "."}
        THEN NumbersIn(t, i + 1, Append(run, t[i]))
        ELSE close \o NumbersIn(t, i + 1, <<>>)

\* the numeric content of a reply: the figures a core reply formats, the
\* numbers in the text of a polished one
Figures(r) ==
    IF r.kind = "polished" THEN NumbersIn(r.text, 1, <<>>)
    ELSE IF "shown" \in DOMAIN r THEN r.shown
    ELSE <<>>

\* C19 (polisher preserves facts): when the core reply shows computed
\* figures, the reply returned after polishing shows the same figures.
C19_PolisherPreservesFacts ==
    (outcome = "returned" /\ "shown" \in DOMAIN core)
    => Figures(reply) = Figures(core)

\* C20 (implicit invariant): in every state reachable from a fresh session by
\* turns and resets, conversation_state is a flow tag or None,
\* getting_goal_time implies a pending goal amount is stored, and no turn has
\* failed reading it.
C20_GoalTimeHasAmount ==
    /\ profile.conversation_state \in FlowStates \cup {"None"}
    /\ profile.conversation_state = "getting_goal_time" => temp_goal_amount # <<>>
    /\ core.kind # "AttributeError"

C20_Witness ==
    /\ profile.conversation_state = "getting_goal_time"
    /\ temp_goal_amount = <<Num(45000, 1)>>
    /\ user_input = <<"4", "5", ",", "0", "0", "0">>
    /\ core.kind = "ask_goal_time"

\* the number of valid answers a state is away from idle
TurnsToIdle ==
    [s \in FlowStates \cup {"None"} |->
        IF s = "None" THEN 0
        ELSE IF s \in {"getting_income_for_budget", "getting_goal_amount"} THEN 2
        ELSE 1]

\* C21 (implicit bounded response): on every reachable state with an active
\* flow a turn answering with a valid positive number returns and brings the
\* machine one step closer to idle, idle being one such turn away from
\* getting_expenses_for_budget, getting_goal_time and
\* getting_emergency_expenses and two from getting_income_for_budget and
\* getting_goal_amount; and a "back" turn returns and reaches idle from every
\* reachable state.
C21_BoundedResponse ==
    [][IsTurn =>
          /\ (profile.conversation_state \in FlowStates
                /\ ~SaysBack(user_input') /\ ValidNumber(user_input'))
             => /\ outcome' = "returned"
                /\ TurnsToIdle[profile'.conversation_state]
                     = TurnsToIdle[profile.conversation_state] - 1
          /\ SaysBack(user_input')
             => /\ outcome' = "returned"
                /\ profile'.conversation_state = "None"]_vars

C21_Witness ==
    /\ outcome = "returned"
    /\ profile.conversation_state = "None"
    /\ core.kind = "goal_schedule"
    /\ core.shown = <<45000, 60000, 75>>
    /\ user_input = <<"6", "0", "0", "0", "0">>

====
